---- MODULE Spec2Model ----
(***************************************************************************)
(* The round-based match engine (counter_strike_ag2_agent/game_state.py)   *)
(* and the API server that serves one session of it                        *)
(* (services/api_server.py).                                               *)
(*                                                                         *)
(* A GameState object is a record with the fields of GameState.__init__;   *)
(* its methods are operators from a record to a record.  Texts and result  *)
(* strings are strings, matched by substring as the code matches them.     *)
(* None is the string "None".                                              *)
(***************************************************************************)
EXTENDS Integers, Sequences, FiniteSets, TLC

VARIABLES
    gs,          \* the GameState object (api_server: game_states_cache[session_id])
    in_cache,    \* api_server: session_id in game_states_cache
    active,      \* api_server: manager.active_connections
    inbox,       \* per websocket connection: the messages delivered to it
    pc,          \* per request: where its handler is suspended
    loc,         \* per request: the local variables of its handler
    applied,     \* the actions applied to the session's GameState, in order
    action_log,  \* table game_actions, in insertion order
    state_rows,  \* table game_states, in insertion order
    next_round_votes,  \* multi_main: the 'cheat: next' votes, one per panel
    chat_logs,   \* multi_main: per Terrorist panel, the number of messages
                 \* of its chat list
    ct_chat      \* multi_main: the number of messages of the CT panel's list

vars == <<gs, in_cache, active, inbox, pc, loc, applied, action_log, state_rows,
          next_round_votes, chat_logs, ct_chat>>

apiVars == <<in_cache, active, inbox, pc, loc, applied, action_log, state_rows>>

(***************************************************************************)
(* config.py                                                               *)
(***************************************************************************)
TEAMS == <<"Terrorists", "Counter-Terrorists">>

POSITIONS == <<"A-site", "B-site", "Mid">>

ACTION_ALIASES ==
    [k \in {"shoot", "plant bomb", "defuse bomb", "move"} |->
        CASE k = "shoot" ->
                {"shoot", "fire the cannons", "open fire", "blast", "send lead"}
          [] k = "plant bomb" ->
                {"plant bomb", "bury the chest", "drop the keg", "plant the keg"}
          [] k = "defuse bomb" ->
                {"defuse bomb", "encounter", "cut the fuse", "disarm the keg",
                 "quench the fuse"}
          [] OTHER ->
                {"move", "sail", "weigh anchor", "set course"}]

\* The members of a team's health dict, in the dict's insertion order.
MEMBERS == <<"player", "bot">>

TeamSet == {TEAMS[i] : i \in 1..Len(TEAMS)}

MemberSet == {MEMBERS[i] : i \in 1..Len(MEMBERS)}

(***************************************************************************)
(* Bounds of the model.                                                    *)
(***************************************************************************)
\* last_action_results grows without bound between resets; the model keeps
\* its most recent MaxRecent entries.
MaxRecent == 1

\* reset_round is not taken once the round number has reached MaxRound.
MaxRound == 2

\* The requests sent to the API server
MaxReq == 2

\* The websocket clients
MaxSockets == 1

\* The requests sent to the API server while websocket clients come and go
MaxWsReq == 1

\* max_rounds of a match is at most MaxMaxRounds, and the round a match
\* starts the model at is at most MaxMaxRounds + 1
MaxMaxRounds == 4

\* The scores a match starts the model with are at most MaxScore
MaxScore == 3

\* The requests sent to the API server around a restart, state reads among
\* them
MaxRaceReq == 3

\* Websocket clients, requests and messages per client of the
\* specification of the subscribers
MaxSubSockets == 2

MaxSubReq == 1

MaxInbox == 2

\* The requests sent to the API server late in a round, a state read among
\* them
MaxReadReq == 2

(***************************************************************************)
(* Python string operations used by the code.                              *)
(***************************************************************************)
\* sub in a
Contains(a, sub) ==
    \E i \in 1..(Len(a) - Len(sub) + 1) : SubSeq(a, i, i + Len(sub) - 1) = sub

\* a.startswith(p)
StartsWith(a, p) == Len(a) >= Len(p) /\ SubSeq(a, 1, Len(p)) = p

LowerChar(c) ==
    CASE c = "A" -> "a" [] c = "B" -> "b" [] c = "D" -> "d" [] c = "M" -> "m"
      [] c = "P" -> "p" [] c = "S" -> "s" [] OTHER -> c

RECURSIVE Lower(_)
\* a.lower(), for the letters that occur in the texts of the model
Lower(a) ==
    IF Len(a) = 0 THEN ""
    ELSE LowerChar(SubSeq(a, 1, 1)) \o Lower(SubSeq(a, 2, Len(a)))

RECURSIVE Strip(_)
\* a.strip()
Strip(a) ==
    IF Len(a) = 0 THEN a
    ELSE IF SubSeq(a, 1, 1) = " " THEN Strip(SubSeq(a, 2, Len(a)))
    ELSE IF SubSeq(a, Len(a), Len(a)) = " " THEN Strip(SubSeq(a, 1, Len(a) - 1))
    ELSE a

\* matches(key) of apply_action: some alias of key occurs in the text
matches(a, key) == \E alias \in ACTION_ALIASES[key] : Contains(a, alias)

\* The for/break scans of apply_action: the index of the first key of keys
\* (a sequence of strings) that occurs in a, or 0
FirstIn(keys, a) ==
    IF \E i \in 1..Len(keys) : Contains(a, keys[i])
    THEN CHOOSE i \in 1..Len(keys) :
            /\ Contains(a, keys[i])
            /\ \A j \in 1..(i - 1) : ~Contains(a, keys[j])
    ELSE 0

\* random.choice(seq) with the draw k
Choice(seq, k) == seq[(k % Len(seq)) + 1]

\* The list lst filtered by keep, order kept
RECURSIVE Filter(_, _)
Filter(lst, keep) ==
    IF lst = <<>> THEN <<>>
    ELSE (IF Head(lst) \in keep THEN <<Head(lst)>> ELSE <<>>) \o Filter(Tail(lst), keep)

\* The most recent MaxRecent entries of a list
Recent(lst) ==
    IF Len(lst) <= MaxRecent THEN lst
    ELSE SubSeq(lst, Len(lst) - MaxRecent + 1, Len(lst))

Last(lst) == lst[Len(lst)]

(***************************************************************************)
(* game_state.py                                                           *)
(***************************************************************************)
Opponent(team) == IF team = TEAMS[1] THEN TEAMS[2] ELSE TEAMS[1]

FullHealth == 100

ShootDamage == 30

\* random.random() is drawn in hundredths; a shot hits when the draw is
\* above HitThreshold, a defuse succeeds when it is above DefuseThreshold.
HitThreshold == 30

DefuseThreshold == 20

\* GameState.__init__
NewGameState ==
    [round |-> 1,
     max_rounds |-> 3,
     player_health |-> [t \in TeamSet |-> [m \in MemberSet |-> FullHealth]],
     bomb_planted |-> FALSE,
     bomb_site |-> "None",
     winner |-> "None",
     phase |-> "chat",
     round_scores |-> [t \in TeamSet |-> 0],
     round_time |-> 120,
     bomb_timer |-> 40,
     defuse_time |-> 10,
     current_positions |-> [t \in TeamSet |-> [m \in MemberSet |-> "spawn"]],
     last_action_results |-> <<>>]

\* self.last_action_results.append(result); return result
Returned(g, result) ==
    [g |-> [g EXCEPT !.last_action_results = Recent(Append(@, result))],
     result |-> result,
     raised |-> FALSE]

\* The lookup failing after the text of the error has been appended to
\* last_action_results
KeyErrorAfterAppend(g, key) ==
    [g |-> [g EXCEPT !.last_action_results = Recent(Append(@, "KeyError: " \o key))],
     result |-> "KeyError: " \o key,
     raised |-> TRUE]

\* self.player_health[team][entity] with a key the dict does not have:
\* KeyError is raised, nothing has been assigned and nothing is returned
KeyError(g, key) ==
    [g |-> g, result |-> "KeyError: " \o key, raised |-> TRUE]

\* The draws of the random source: u for random.random() in hundredths,
\* k for random.choice
Draws == [u : {10, 50}, k : 0..2]

Call(team, entity, action) == [team |-> team, entity |-> entity, action |-> action]

\* The calls of apply_action made on the engine: both teams shoot, the
\* objective is planted and defused, a combatant moves, and texts that match
\* nothing or belong to the other team are submitted
Calls ==
    {Call("Terrorists", "player", "shoot bot"),
     Call("Terrorists", "player", "plant bomb at b-site"),
     Call("Terrorists", "player", "dance"),
     Call("Counter-Terrorists", "player", "Shoot Player "),
     Call("Counter-Terrorists", "player", "defuse bomb"),
     Call("Counter-Terrorists", "bot", "move to mid")}

\* The calls of a round played to the elimination of the Counter-Terrorists
ElimCalls ==
    {Call("Terrorists", "player", "shoot player"),
     Call("Terrorists", "player", "shoot bot"),
     Call("Terrorists", "bot", "plant bomb at b-site"),
     Call("Counter-Terrorists", "bot", "defuse bomb")}

\* The calls of rounds played for the objective: both teams submit plant and
\* defuse texts, and the two players shoot each other
ObjectiveCalls ==
    {Call("Terrorists", "player", "plant bomb"),
     Call("Terrorists", "bot", "plant bomb at a-site"),
     Call("Counter-Terrorists", "player", "plant bomb"),
     Call("Terrorists", "bot", "defuse bomb"),
     Call("Counter-Terrorists", "player", "defuse bomb"),
     Call("Counter-Terrorists", "bot", "shoot player"),
     Call("Terrorists", "bot", "shoot player")}

\* The action requests sent to the API server
ApiCalls ==
    {Call("Terrorists", "player", "plant bomb"),
     Call("Terrorists", "bot", "plant bomb"),
     Call("Counter-Terrorists", "player", "defuse bomb")}

\* The action requests sent while websocket clients come and go
WsCalls ==
    ApiCalls \cup {Call("Terrorists", "player", "dance")}

\* The action requests sent around a restart of the server
RaceCalls == {Call("Terrorists", "player", "plant bomb at b-site")}

\* The texts typed into a Terrorist panel of multi_main, lowered and stripped
PanelTexts == {"plant bomb at b-site", "shoot player", "dance"}

\* The texts typed into the Terrorist panels while the chat is followed: a
\* move and a text that is no action
ChatTexts == {"move to mid", "dance"}

\* The texts typed into the Counter-Terrorist panel of multi_main
CtPanelTexts == {"defuse bomb", "shoot player"}

\* random.choice(["shoot player", "move to A-site", "move to B-site"])
CtChoices == <<"shoot player", "move to A-site", "move to B-site">>

\* The calls that exercise the parsing of action texts: texts that name
\* several sites in an order other than that of POSITIONS, texts that name
\* none, and a text with the phrase of one action and an alias of another
ParseCalls ==
    {Call("Terrorists", "player", "move to mid then b-site"),
     Call("Counter-Terrorists", "bot", "move to Mid or A-site"),
     Call("Counter-Terrorists", "player", "move to cover"),
     Call("Terrorists", "bot", "plant bomb at mid or a-site"),
     Call("Terrorists", "player", "plant bomb"),
     Call("Terrorists", "player", "plant bomb and sail")}

\* The calls of the API with identifiers that do not exist, next to a plant
\* and a defuse of combatants that do
RejectCalls ==
    {Call("InvalidTeam", "player", "move"),
     Call("Terrorists", "ghost", "plant bomb"),
     Call("Terrorists", "player", "plant bomb"),
     Call("Counter-Terrorists", "player", "defuse bomb")}

\* The calls of the API late in a round: the Terrorist player shoots
ReadCalls ==
    {Call("Terrorists", "player", "shoot player"),
     Call("Terrorists", "player", "shoot bot")}

\* The dead check with the comparison < in place of <=
IsDeadStrict(g, team, entity) == g.player_health[team][entity] < 0

\* if self.player_health[team][entity] <= 0
IsDead(g, team, entity) == g.player_health[team][entity] <= 0

\* result = f"{entity} is dead and cannot act."
DeadActor(g, entity) == Returned(g, entity \o " is dead and cannot act.")

\* The site scan with the last match winning: the last of POSITIONS whose
\* lower case occurs in a, or none
SiteInLastWins(a, none) ==
    LET found == {j \in 1..Len(POSITIONS) : Contains(a, Lower(POSITIONS[j]))}
    IN  IF found = {} THEN none
        ELSE POSITIONS[CHOOSE j \in found : \A k \in found : k <= j]

\* The site named in the normalized text a: the first of POSITIONS whose
\* lower case occurs in it, or none
SiteIn(a, none) ==
    LET i == FirstIn([j \in 1..Len(POSITIONS) |-> Lower(POSITIONS[j])], a)
    IN  IF i = 0 THEN none ELSE POSITIONS[i]

\* What apply_action reads from an action text: a = action.lower().strip(),
\* the four keyword tests of its if/elif chain, and the site and the target
\* its scans extract
Parse(action) ==
    LET a == Strip(Lower(action))
    IN  [move |-> Contains(a, "move to") \/ matches(a, "move"),
         shoot |-> Contains(a, "shoot") \/ matches(a, "shoot"),
         plant |-> Contains(a, "plant bomb") \/ matches(a, "plant bomb"),
         defuse |-> Contains(a, "defuse bomb") \/ matches(a, "defuse bomb"),
         site |-> SiteIn(a, "None"),
         target |-> FirstIn(MEMBERS, a)]

\* The calls of a firefight: every combatant shoots at whoever of the other
\* team random.choice picks
DuelCalls ==
    {Call("Terrorists", "player", "shoot"),
     Call("Terrorists", "bot", "shoot"),
     Call("Counter-Terrorists", "player", "shoot"),
     Call("Counter-Terrorists", "bot", "shoot")}

\* The calls of rounds decided by the objective
OverCalls ==
    {Call("Terrorists", "player", "plant bomb"),
     Call("Counter-Terrorists", "player", "defuse bomb")}

\* Every action text of the model, and what apply_action reads from each
AllTexts ==
    {c.action : c \in Calls \cup ElimCalls \cup ObjectiveCalls \cup ApiCalls \cup WsCalls
                    \cup ParseCalls \cup RejectCalls \cup ReadCalls
                    \cup DuelCalls \cup OverCalls}
        \cup PanelTexts \cup ChatTexts \cup CtPanelTexts \cup {CtChoices[i] : i \in 1..Len(CtChoices)}

Parsed == [action \in AllTexts |-> Parse(action)]

\* The movement branch
Move(g, team, entity, p) ==
    LET position == IF p.site # "None" THEN p.site ELSE "unknown"
    IN  Returned([g EXCEPT !.current_positions[team][entity] = position],
                 entity \o " moved to " \o position \o ".")

\* The hit without the clamp
DamagedUnclamped(hp) == hp - ShootDamage

\* The health left by a hit: damage 30, clamped at 0
Damaged(hp) == IF hp - ShootDamage < 0 THEN 0 ELSE hp - ShootDamage

\* The shooting branch; rnd.k is the draw of random.choice, rnd.u the draw
\* of random.random()
Shoot(g, team, entity, p, rnd) ==
    LET target_team == Opponent(team)
        hps == g.player_health[target_team]
        named == p.target
        alive_targets == Filter(MEMBERS, {m \in MemberSet : hps[m] > 0})
    IN  IF named = 0 /\ alive_targets = <<>>
        THEN Returned(g, entity \o " has no targets to shoot!")
        ELSE LET target == IF named # 0 THEN MEMBERS[named]
                           ELSE Choice(alive_targets, rnd.k)
             IN  IF hps[target] <= 0
                 THEN Returned(g, entity \o " cannot shoot " \o target
                                  \o " - already dead!")
                 ELSE IF rnd.u > HitThreshold
                 THEN LET hp == Damaged(hps[target])
                          h == [g EXCEPT !.player_health[target_team][target] = hp]
                      IN  IF hp <= 0
                          THEN Returned(h, entity \o " killed " \o target
                                           \o "! (0 HP)")
                          ELSE Returned(h, entity \o " hit " \o target \o " for "
                                           \o ToString(ShootDamage) \o " damage! ("
                                           \o ToString(hp) \o " HP left)")
                 ELSE Returned(g, entity \o " missed " \o target \o ".")

\* The planting branch without the test of bomb_planted
PlantOver(g, entity, p, rnd) ==
    LET site == IF p.site # "None" THEN p.site ELSE Choice(POSITIONS, rnd.k)
    IN  Returned([g EXCEPT !.bomb_planted = TRUE, !.bomb_site = site],
                 entity \o " planted bomb at " \o site \o "!")

\* The bomb planting branch (Terrorists only)
Plant(g, entity, p, rnd) ==
    IF g.bomb_planted
    THEN Returned(g, entity \o ": Bomb is already planted!")
    ELSE LET site == IF p.site # "None" THEN p.site ELSE Choice(POSITIONS, rnd.k)
         IN  Returned([g EXCEPT !.bomb_planted = TRUE, !.bomb_site = site],
                      entity \o " planted bomb at " \o site \o "!")

\* The defusing branch without the test of bomb_planted
DefuseUnplanted(g, entity, rnd) ==
    IF rnd.u > DefuseThreshold
    THEN Returned([g EXCEPT !.bomb_planted = FALSE, !.winner = "Counter-Terrorists"],
                  entity \o " successfully defused the bomb! CT wins!")
    ELSE Returned(g, entity \o " failed to defuse the bomb in time!")

\* The bomb defusing branch (Counter-Terrorists only)
Defuse(g, entity, rnd) ==
    IF ~g.bomb_planted
    THEN Returned(g, entity \o ": No bomb to defuse!")
    ELSE IF rnd.u > DefuseThreshold
    THEN Returned([g EXCEPT !.bomb_planted = FALSE, !.winner = "Counter-Terrorists"],
                  entity \o " successfully defused the bomb! CT wins!")
    ELSE Returned(g, entity \o " failed to defuse the bomb in time!")

\* The fallback that also moves the phase on, as if the turn had been used
InvalidActionUsesTurn(g, action) ==
    Returned([g EXCEPT !.phase = "resolve"], "Invalid action: " \o action)

\* The invalid action fallback
InvalidAction(g, action) == Returned(g, "Invalid action: " \o action)

\* GameState.apply_action: the object after the call and the returned string
apply_action(g, team, entity, action, rnd) ==
    IF team \notin DOMAIN g.player_health THEN KeyError(g, team)
    ELSE IF entity \notin DOMAIN g.player_health[team] THEN KeyError(g, entity)
    ELSE IF IsDead(g, team, entity) THEN DeadActor(g, entity)
    ELSE LET p == Parsed[action]
         IN  IF p.move THEN Move(g, team, entity, p)
             ELSE IF p.shoot THEN Shoot(g, team, entity, p, rnd)
             ELSE IF p.plant /\ team = "Terrorists" THEN Plant(g, entity, p, rnd)
             ELSE IF p.defuse /\ team = "Counter-Terrorists" THEN Defuse(g, entity, rnd)
             ELSE InvalidAction(g, action)

\* The round-over check with the recorded winner tested before the
\* elimination rule
is_round_over_winner_first(g) ==
    IF g.winner # "None" THEN [g |-> g, ret |-> TRUE]
    ELSE IF \E t \in TeamSet : \A m \in MemberSet : g.player_health[t][m] <= 0
    THEN LET t == CHOOSE t \in TeamSet : \A m \in MemberSet : g.player_health[t][m] <= 0
         IN  [g |-> [g EXCEPT !.winner = CHOOSE o \in TeamSet : o # t], ret |-> TRUE]
    ELSE [g |-> g, ret |-> FALSE]

\* all(hp <= 0 for hp in self.player_health[team].values())
AllDead(g, team) == \A m \in MemberSet : g.player_health[team][m] <= 0

\* GameState.is_round_over: the object after the call and the returned flag
is_round_over(g) ==
    IF \E i \in 1..Len(TEAMS) : AllDead(g, TEAMS[i])
    THEN LET i == CHOOSE k \in 1..Len(TEAMS) :
                    AllDead(g, TEAMS[k]) /\ \A j \in 1..(k - 1) : ~AllDead(g, TEAMS[j])
         IN  [g |-> [g EXCEPT !.winner = Opponent(TEAMS[i])], ret |-> TRUE]
    ELSE [g |-> g, ret |-> g.winner # "None"]

Max(S) == CHOOSE x \in S : \A y \in S : y <= x

\* The match-over test with the majority rounded the other way
is_game_over_rounded_up(g) ==
    \/ g.round > g.max_rounds
    \/ Max({g.round_scores[t] : t \in TeamSet}) >= (g.max_rounds + 1) \div 2

\* GameState.is_game_over
is_game_over(g) ==
    \/ g.round > g.max_rounds
    \/ Max({g.round_scores[t] : t \in TeamSet}) >= (g.max_rounds \div 2) + 1

\* The reset that awards nothing
reset_round_without_award(g) ==
    [g EXCEPT
        !.player_health = [t \in TeamSet |-> [m \in MemberSet |-> FullHealth]],
        !.current_positions = [t \in TeamSet |-> [m \in MemberSet |-> "spawn"]],
        !.bomb_planted = FALSE,
        !.bomb_site = "None",
        !.winner = "None",
        !.phase = "chat",
        !.round = @ + 1,
        !.last_action_results = <<>>]

\* reset_round with the scoreboard replaced by the result of the round that
\* ends, in place of being added to
reset_round_last_round_only(g) ==
    [g EXCEPT
        !.round_scores = [t \in TeamSet |-> IF t = g.winner THEN 1 ELSE 0],
        !.player_health = [t \in TeamSet |-> [m \in MemberSet |-> FullHealth]],
        !.current_positions = [t \in TeamSet |-> [m \in MemberSet |-> "spawn"]],
        !.bomb_planted = FALSE,
        !.bomb_site = "None",
        !.winner = "None",
        !.phase = "chat",
        !.round = @ + 1,
        !.last_action_results = <<>>]

\* GameState.reset_round
reset_round(g) ==
    [g EXCEPT
        !.round_scores = IF g.winner # "None"
                         THEN [@ EXCEPT ![g.winner] = @ + 1] ELSE @,
        !.player_health = [t \in TeamSet |-> [m \in MemberSet |-> FullHealth]],
        !.current_positions = [t \in TeamSet |-> [m \in MemberSet |-> "spawn"]],
        !.bomb_planted = FALSE,
        !.bomb_site = "None",
        !.winner = "None",
        !.phase = "chat",
        !.round = @ + 1,
        !.last_action_results = <<>>]

(***************************************************************************)
(* The engine driven by arbitrary calls on one GameState object.           *)
(***************************************************************************)
\* No API server: no session, no request, no connection, empty tables
ApiIdle ==
    /\ in_cache = FALSE
    /\ active = <<>>
    /\ inbox = <<>>
    /\ pc = <<>>
    /\ loc = <<>>
    /\ applied = <<>>
    /\ action_log = <<>>
    /\ state_rows = <<>>

\* No window: no panel, no vote, no chat list
NoPanels == next_round_votes = <<>> /\ chat_logs = <<>> /\ ct_chat = 0

Init == gs = NewGameState /\ ApiIdle /\ NoPanels

ApplyAction(calls) ==
    \E c \in calls, rnd \in Draws :
        /\ gs' = apply_action(gs, c.team, c.entity, c.action, rnd).g
        /\ UNCHANGED <<apiVars, next_round_votes, chat_logs, ct_chat>>

IsRoundOver ==
    /\ gs' = is_round_over(gs).g
    /\ UNCHANGED <<apiVars, next_round_votes, chat_logs, ct_chat>>

ResetRound ==
    /\ gs.round < MaxRound
    /\ gs' = reset_round(gs)
    /\ UNCHANGED <<apiVars, next_round_votes, chat_logs, ct_chat>>

Next == ApplyAction(Calls) \/ IsRoundOver \/ ResetRound

Spec == Init /\ [][Next]_vars

NextElim == ApplyAction(ElimCalls) \/ IsRoundOver \/ ResetRound

SpecElim == Init /\ [][NextElim]_vars

\* Rounds in which the texts of ParseCalls are submitted
NextParse == ApplyAction(ParseCalls) \/ ResetRound

SpecParse == Init /\ [][NextParse]_vars

\* A fresh GameState whose max_rounds the creator of the match has set
InitOver ==
    /\ \E m \in 1..MaxMaxRounds : gs = [NewGameState EXCEPT !.max_rounds = m]
    /\ ApiIdle
    /\ NoPanels

\* reset_round, called up to the round after the last one of the match
ResetToNextRound ==
    /\ gs.round <= gs.max_rounds
    /\ gs' = reset_round(gs)
    /\ UNCHANGED <<apiVars, next_round_votes, chat_logs, ct_chat>>

\* A match played to its end and beyond
NextOver == ApplyAction(OverCalls) \/ IsRoundOver \/ ResetToNextRound

SpecOver == InitOver /\ [][NextOver]_vars

\* A firefight over several rounds, the engine left to apply_action and
\* reset_round
NextDuel == ApplyAction(DuelCalls) \/ ResetRound

SpecDuel == Init /\ [][NextDuel]_vars

\* One round played for the objective
NextObjective == ApplyAction(ObjectiveCalls) \/ IsRoundOver

SpecObjective == Init /\ [][NextObjective]_vars

(***************************************************************************)
(* multi_main.run_multi: the game loop of the multi-panel window.  One      *)
(* action is the handling of one submitted input.  Of a chat list the       *)
(* number of its messages is kept.  SpecMain follows the match and the      *)
(* votes and leaves the chat lists out (chat_logs is empty there); SpecChat *)
(* follows the chat lists.                                                  *)
(***************************************************************************)
\* run_multi(3)
NumInstances == 3

Panels == 1..NumInstances

\* The three lines each chat list starts with
ChatStart == 3

\* if len(chat_logs[j]) > 12: chat_logs[j] = chat_logs[j][-12:]
ChatLimit == 12

\* The chat lists are followed until one holds MaxChat messages
MaxChat == 13

\* lst[-12:] of a list of n messages
Truncated(n) == IF n > ChatLimit THEN ChatLimit ELSE n

\* any(keyword in action.lower() for keyword in [...]), for every text of
\* the model
Keyworded ==
    [action \in AllTexts |->
        \E keyword \in {"shoot", "plant", "defuse", "move"} :
            Contains(Lower(action), keyword)]

HasKeyword(action) == Keyworded[action]

\* Whether the chat lists are followed, and have room for one more input
ChatFollowed == chat_logs # <<>>

ChatRoom ==
    /\ \A p \in DOMAIN chat_logs : chat_logs[p] < MaxChat
    /\ ct_chat < MaxChat

\* "Check if round is over": the winner is announced, and unless the game
\* is over the next round starts
RoundEnd(g) ==
    LET over == is_round_over(g)
    IN  IF over.ret
        THEN IF is_game_over(over.g) THEN over.g ELSE reset_round(over.g)
        ELSE over.g

\* The action of the "smart CT response"; k is the draw of random.choice
ct_action(g, k) ==
    IF g.bomb_planted THEN "defuse bomb"
    ELSE IF \E m \in MemberSet : g.player_health["Counter-Terrorists"][m] <= 50
    THEN "shoot player"
    ELSE Choice(CtChoices, k)

\* "Smart CT response based on game state" (show_ct, the default).  The
\* response names its target, so rnd.k is drawn once, by ct_action.
CtResponse(g, rnd) ==
    LET over == is_round_over(g)
    IN  IF ~over.ret
        THEN apply_action(over.g, "Counter-Terrorists", "player",
                          ct_action(over.g, rnd.k), rnd).g
        ELSE over.g

\* After run_multi has set up its panels, the chat lists left out
InitMain ==
    /\ gs = NewGameState
    /\ ApiIdle
    /\ next_round_votes = [i \in Panels |-> 0]
    /\ chat_logs = <<>>
    /\ ct_chat = 0

\* After run_multi has set up its panels
InitChat ==
    /\ gs = NewGameState
    /\ ApiIdle
    /\ next_round_votes = [i \in Panels |-> 0]
    /\ chat_logs = [i \in Panels |-> ChatStart]
    /\ ct_chat = ChatStart

\* A game action is submitted in Terrorist panel i (which panel it is
\* matters to the chat lists only).  "You: ..." is appended; a result that
\* is not Invalid goes to the panel and as a teammate line to the other
\* Terrorist panels; the status line follows a keyword; the winner and the
\* game-over or new-round message go to every panel; the CT response adds
\* two lines to the CT list; the Terrorist lists are cut to their last 12
TerroristInput(i, texts) ==
    /\ ChatRoom
    /\ \E action \in texts, rnd \in Draws, ct_rnd \in Draws :
        LET acted == apply_action(gs, "Terrorists", "player", action, rnd)
            shown == IF StartsWith(acted.result, "Invalid action:") THEN 0 ELSE 1
            status == IF HasKeyword(action) THEN 1 ELSE 0
            round_msgs == IF is_round_over(acted.g).ret THEN 2 ELSE 0
            ended == RoundEnd(acted.g)
            response == IF ~is_round_over(ended).ret THEN 2 ELSE 0
        IN  /\ gs' = CtResponse(ended, ct_rnd)
            /\ chat_logs' = [p \in DOMAIN chat_logs |->
                                Truncated(chat_logs[p] + shown + round_msgs
                                          + (IF p = i THEN 1 + status ELSE 0))]
            /\ ct_chat' = IF ChatFollowed THEN ct_chat + round_msgs + response
                          ELSE ct_chat
    /\ UNCHANGED <<apiVars, next_round_votes>>

\* An AI query (rag:, ag2:, kb:, ask:, smart:, critic:, quant:, som:) or a
\* cheat command other than 'next' is submitted in Terrorist panel i:
\* "You: ..." and one line of answer are appended to the panel's list
TerroristAside(i) ==
    /\ ChatFollowed
    /\ ChatRoom
    /\ chat_logs' = [chat_logs EXCEPT ![i] = @ + 2]
    /\ UNCHANGED <<gs, apiVars, next_round_votes, ct_chat>>

\* 'cheat: next' is submitted in Terrorist panel i
CheatNext(i) ==
    /\ gs.round < MaxRound
    /\ ChatRoom
    /\ LET voted == [next_round_votes EXCEPT ![i] = @ + 1]
           need == Max({1, Len(next_round_votes) \div 2})
       IN  IF Cardinality({p \in Panels : voted[p] > 0}) >= need
           THEN /\ next_round_votes' = [p \in Panels |-> 0]
                /\ chat_logs' = [p \in DOMAIN chat_logs |->
                                    chat_logs[p] + 1 + (IF p = i THEN 2 ELSE 0)]
                /\ gs' = reset_round(gs)
           ELSE /\ next_round_votes' = voted
                /\ chat_logs' = [p \in DOMAIN chat_logs |->
                                    chat_logs[p] + (IF p = i THEN 2 ELSE 0)]
                /\ UNCHANGED gs
    /\ UNCHANGED <<apiVars, ct_chat>>

\* A game action is submitted in the Counter-Terrorist panel: "You: ...",
\* the result and after a keyword the status line are appended, and the
\* list is cut to its last 12
CtInput ==
    /\ ChatRoom
    /\ \E action \in CtPanelTexts, rnd \in Draws :
        /\ gs' = apply_action(gs, "Counter-Terrorists", "player", action, rnd).g
        /\ ct_chat' = IF ChatFollowed
                      THEN Truncated(ct_chat + 2 + (IF HasKeyword(action) THEN 1 ELSE 0))
                      ELSE ct_chat
    /\ UNCHANGED <<apiVars, next_round_votes, chat_logs>>

\* A cheat command is submitted in the Counter-Terrorist panel: "You: ..."
\* and one line of answer are appended
CtAside ==
    /\ ChatFollowed
    /\ ChatRoom
    /\ ct_chat' = ct_chat + 2
    /\ UNCHANGED <<gs, apiVars, next_round_votes, chat_logs>>

NextMain ==
    \/ TerroristInput(1, PanelTexts)
    \/ \E i \in Panels : CheatNext(i)
    \/ CtInput

SpecMain == InitMain /\ [][NextMain]_vars

\* Every kind of input: game actions are typed into the first Terrorist
\* panel, AI queries and informational cheat commands into the second,
\* 'cheat: next' into any of them
NextChat ==
    \/ TerroristInput(1, ChatTexts)
    \/ TerroristAside(2)
    \/ \E i \in Panels : CheatNext(i)
    \/ CtInput
    \/ CtAside

SpecChat == InitChat /\ [][NextChat]_vars

(***************************************************************************)
(* A match picked up at any round, score and max_rounds (the fields are    *)
(* plain attributes: create_session sets max_rounds, the tests set round   *)
(* and round_scores), and taken through the end-of-round check of the game *)
(* loop.                                                                   *)
(***************************************************************************)
InitMatch ==
    /\ \E r \in 1..(MaxMaxRounds + 1), m \in 1..MaxMaxRounds,
          a \in 0..MaxScore, b \in 0..MaxScore, w \in TeamSet \cup {"None"} :
            gs = [NewGameState EXCEPT
                    !.round = r, !.max_rounds = m, !.winner = w,
                    !.round_scores = [t \in TeamSet |->
                                        IF t = "Terrorists" THEN a ELSE b]]
    /\ ApiIdle
    /\ NoPanels

\* multi_main: if state.is_round_over(): if state.is_game_over(): ... else:
\* state.reset_round()
EndOfRound ==
    /\ is_round_over(gs).ret
    /\ gs' = RoundEnd(gs)
    /\ UNCHANGED <<apiVars, next_round_votes, chat_logs, ct_chat>>

NextMatch == EndOfRound

SpecMatch == InitMatch /\ [][NextMatch]_vars

(***************************************************************************)
(* services/api_server.py: one session, served on one event loop.  A       *)
(* handler runs without interruption from one await to the next; each      *)
(* action below is one such run.  Every request has its own pooled         *)
(* database connection (services/database.py), so the statements of two    *)
(* suspended handlers complete in either order.                            *)
(***************************************************************************)
Reqs == 1..MaxReq

Sockets == 1..MaxSockets

WsReqs == 1..MaxWsReq

RaceReqs == 1..MaxRaceReq

SubSockets == 1..MaxSubSockets

SubReqs == 1..MaxSubReq

\* The id of the session the model serves, and the id of another session
SessionId == "s1"

OtherSessionId == "s2"

\* The session_id of the path /ws/{session_id} that client w connects to
ws_session_id(w) == IF w = 1 THEN SessionId ELSE OtherSessionId

\* The locals of a handler that has not run yet
NoLocals ==
    [kind |-> "", call |-> Call("", "", ""), result |-> "", round |-> 0,
     snap |-> <<>>, msg |-> <<>>, target |-> 0, idx |-> 0, stayed |-> {}]

\* The state_data dict of save_game_state
StateData(g) ==
    [round |-> g.round,
     max_rounds |-> g.max_rounds,
     player_health |-> g.player_health,
     bomb_planted |-> g.bomb_planted,
     bomb_site |-> g.bomb_site,
     winner |-> g.winner,
     phase |-> g.phase,
     round_scores |-> g.round_scores,
     round_time |-> g.round_time,
     bomb_timer |-> g.bomb_timer,
     current_positions |-> g.current_positions,
     last_action_results |-> g.last_action_results]

\* The row save_game_state inserts into game_states
StateRow(data) ==
    [round_number |-> data.round,
     phase |-> data.phase,
     bomb_planted |-> data.bomb_planted,
     bomb_site |-> data.bomb_site,
     winner |-> data.winner,
     state_data |-> data]

\* The row apply_action inserts into game_actions for request r
ActionRow(r) ==
    [request |-> r,
     round_number |-> loc[r].round,
     team |-> loc[r].call.team,
     player_name |-> loc[r].call.entity,
     action |-> loc[r].call.action,
     result |-> loc[r].result]

\* The message apply_action broadcasts: the dict literal reads winner before
\* it calls is_round_over()
ActionMessage(r, g) ==
    LET over == is_round_over(g)
    IN  [type |-> "action_result",
         session_id |-> SessionId,
         team |-> loc[r].call.team,
         player |-> loc[r].call.entity,
         action |-> loc[r].call.action,
         result |-> loc[r].result,
         game_state |-> [round |-> g.round,
                         player_health |-> g.player_health,
                         bomb_planted |-> g.bomb_planted,
                         winner |-> g.winner,
                         is_round_over |-> over.ret,
                         is_game_over |-> is_game_over(over.g)]]

\* SELECT state_data FROM game_states ORDER BY round_number DESC,
\* created_at DESC LIMIT 1
LatestStateData(rows) ==
    LET i == CHOOSE k \in 1..Len(rows) :
                \A j \in 1..Len(rows) :
                    \/ rows[j].round_number < rows[k].round_number
                    \/ rows[j].round_number = rows[k].round_number /\ j <= k
    IN  rows[i].state_data

\* A GameState with the fields of a state_data dict
FromStateData(d) ==
    [NewGameState EXCEPT
        !.round = d.round, !.max_rounds = d.max_rounds,
        !.player_health = d.player_health, !.bomb_planted = d.bomb_planted,
        !.bomb_site = d.bomb_site, !.winner = d.winner, !.phase = d.phase,
        !.round_scores = d.round_scores,
        !.current_positions = d.current_positions,
        !.last_action_results = d.last_action_results]

\* The object rebuilt from the last persisted snapshot
ReloadedState(r) == FromStateData(LatestStateData(state_rows))

\* game_state = game_states_cache[session_id]: the object the handler of
\* request r applies its action to
HandlerState(r) == gs

\* The game_actions table without the row of request r
NotLogged(r) == action_log

\* await conn.execute(INSERT INTO game_actions ...)
Logged(r) == Append(action_log, ActionRow(r))

\* GameState() in get_game_state: the object put into the cache when the
\* session is not cached
Reconstructed(rows) == NewGameState

\* After create_session: the session is cached and its initial state saved
InitApi ==
    /\ gs = NewGameState
    /\ in_cache = TRUE
    /\ active = <<>>
    /\ inbox = [w \in Sockets |-> <<>>]
    /\ pc = [r \in Reqs |-> "new"]
    /\ loc = [r \in Reqs |-> NoLocals]
    /\ applied = <<>>
    /\ action_log = <<>>
    /\ state_rows = <<StateRow(StateData(NewGameState))>>
    /\ NoPanels

\* websocket_endpoint up to the receive loop: manager.connect
WsConnect(w) ==
    /\ \A i \in 1..Len(active) : active[i] # w
    /\ active' = Append(active, w)
    /\ UNCHANGED <<gs, in_cache, inbox, pc, loc, applied, action_log, state_rows,
                 next_round_votes, chat_logs, ct_chat>>

\* WebSocketDisconnect in websocket_endpoint: manager.disconnect.  The
\* connection has not stayed for the whole of a broadcast that is under way
WsDisconnect(w) ==
    /\ \E i \in 1..Len(active) : active[i] = w
    /\ active' = Filter(active, DOMAIN inbox \ {w})
    /\ loc' = [r \in DOMAIN loc |->
                IF pc[r] = "send" THEN [loc[r] EXCEPT !.stayed = @ \ {w}] ELSE loc[r]]
    /\ UNCHANGED <<gs, in_cache, inbox, pc, applied, action_log, state_rows,
                 next_round_votes, chat_logs, ct_chat>>

\* One turn of the receive loop of websocket_endpoint: a ping is answered
\* with a pong, a subscribe with the session_id of the path
WsReceive(w) ==
    /\ \E i \in 1..Len(active) : active[i] = w
    /\ Len(inbox[w]) < MaxInbox
    /\ \E type \in {"ping", "subscribe"} :
        inbox' = [inbox EXCEPT ![w] =
                    Append(@, IF type = "ping"
                              THEN [type |-> "pong"]
                              ELSE [type |-> "subscribed",
                                    session_id |-> ws_session_id(w)])]
    /\ UNCHANGED <<gs, in_cache, active, pc, loc, applied, action_log, state_rows,
                 next_round_votes, chat_logs, ct_chat>>

\* apply_action of the API from its first line to await conn.execute: the
\* action is applied and the arguments of the INSERT are evaluated; an
\* exception of GameState.apply_action ends the handler with an error
\* response
HandleAction(r, calls) ==
    /\ pc[r] = "new"
    /\ in_cache
    /\ \E c \in calls, rnd \in Draws :
        LET base == HandlerState(r)
            done == apply_action(base, c.team, c.entity, c.action, rnd)
        IN  /\ gs' = done.g
            /\ IF done.raised
               THEN /\ loc' = [loc EXCEPT ![r] = [@ EXCEPT !.kind = "action", !.call = c]]
                    /\ pc' = [pc EXCEPT ![r] = "error"]
                    /\ UNCHANGED applied
               ELSE /\ loc' = [loc EXCEPT ![r] = [@ EXCEPT !.kind = "action", !.call = c,
                                                        !.result = done.result,
                                                        !.round = done.g.round]]
                    /\ pc' = [pc EXCEPT ![r] = "log"]
                    /\ applied' = Append(applied, [request |-> r, base |-> base,
                                                   made |-> done.g])
    /\ UNCHANGED <<in_cache, active, inbox, action_log, state_rows,
                 next_round_votes, chat_logs, ct_chat>>

\* The INSERT into game_actions completes; save_game_state builds state_data
\* from the object as it is now and awaits its INSERT
LogAction(r) ==
    /\ pc[r] = "log"
    /\ action_log' = Logged(r)
    /\ loc' = [loc EXCEPT ![r].snap = <<StateData(gs)>>]
    /\ pc' = [pc EXCEPT ![r] = "save"]
    /\ UNCHANGED <<gs, in_cache, active, inbox, applied, state_rows,
                 next_round_votes, chat_logs, ct_chat>>

\* get_game_state(session_id, conn) at the end of apply_action, the session
\* being cached: the response is built, is_round_over() is called
Respond(r, g) ==
    /\ gs' = is_round_over(g).g
    /\ pc' = [pc EXCEPT ![r] = "done"]

\* The INSERT into game_states completes; the broadcast message is built
\* (is_round_over() is called) and manager.broadcast starts: it awaits the
\* send to the first connection, or with no connection returns at once
SaveState(r) ==
    /\ pc[r] = "save"
    /\ state_rows' = Append(state_rows, StateRow(loc[r].snap[1]))
    /\ LET m == ActionMessage(r, gs)
           g == is_round_over(gs).g
       IN  IF active = <<>>
           THEN /\ Respond(r, g)
                /\ loc' = [loc EXCEPT ![r].msg = <<m>>]
           ELSE /\ gs' = g
                /\ pc' = [pc EXCEPT ![r] = "send"]
                /\ loc' = [loc EXCEPT ![r] = [@ EXCEPT !.msg = <<m>>, !.idx = 1,
                                                 !.target = active[1],
                                                 !.stayed = {active[i] : i \in 1..Len(active)}]]
    /\ UNCHANGED <<in_cache, active, inbox, applied, action_log,
                 next_round_votes, chat_logs, ct_chat>>

\* connection.send_text returns (or raises, which broadcast swallows, when
\* the connection is gone); the for loop of broadcast goes on to the next
\* element of active_connections, and after the last one the response is built
SendDone(r) ==
    /\ pc[r] = "send"
    /\ inbox' = IF \E i \in 1..Len(active) : active[i] = loc[r].target
                THEN [inbox EXCEPT ![loc[r].target] = Append(@, loc[r].msg[1])]
                ELSE inbox
    /\ IF loc[r].idx < Len(active)
       THEN /\ loc' = [loc EXCEPT ![r] = [@ EXCEPT !.idx = @ + 1,
                                             !.target = active[loc[r].idx + 1]]]
            /\ UNCHANGED <<gs, pc>>
       ELSE /\ Respond(r, gs)
            /\ loc' = [loc EXCEPT ![r].stayed = {}]
    /\ UNCHANGED <<in_cache, active, applied, action_log, state_rows,
                 next_round_votes, chat_logs, ct_chat>>

\* connection.send_text raises for a connection that is still in
\* active_connections (its peer is gone, its receive loop has not seen it
\* yet): except: pass, and the for loop goes on.  The broadcast could not
\* reach this connection, which is not counted among those that stayed
SendFails(r) ==
    /\ pc[r] = "send"
    /\ \E i \in 1..Len(active) : active[i] = loc[r].target
    /\ IF loc[r].idx < Len(active)
       THEN /\ loc' = [loc EXCEPT ![r] = [@ EXCEPT !.idx = @ + 1,
                                             !.target = active[loc[r].idx + 1],
                                             !.stayed = @ \ {loc[r].target}]]
            /\ UNCHANGED <<gs, pc>>
       ELSE /\ Respond(r, gs)
            /\ loc' = [loc EXCEPT ![r].stayed = {}]
    /\ UNCHANGED <<in_cache, active, inbox, applied, action_log, state_rows,
                 next_round_votes, chat_logs, ct_chat>>

\* An INSERT of apply_action raises: the handler ends with an error response
DbFails(r) ==
    /\ pc[r] \in {"log", "save"}
    /\ pc' = [pc EXCEPT ![r] = "error"]
    /\ UNCHANGED <<gs, in_cache, active, inbox, loc, applied, action_log, state_rows,
                 next_round_votes, chat_logs, ct_chat>>

\* get_game_state with the session cached
HandleState(r) ==
    /\ pc[r] = "new"
    /\ in_cache
    /\ Respond(r, gs)
    /\ loc' = [loc EXCEPT ![r].kind = "state"]
    /\ UNCHANGED <<in_cache, active, inbox, applied, action_log, state_rows,
                 next_round_votes, chat_logs, ct_chat>>

\* Concurrent requests on the session, nobody being connected to /ws
NextApi ==
    \E r \in Reqs :
        \/ HandleAction(r, ApiCalls)
        \/ LogAction(r)
        \/ SaveState(r)
        \/ DbFails(r)
        \/ HandleState(r)

SpecApi == InitApi /\ [][NextApi]_vars

\* Concurrent requests on the session, some of them naming a team or a
\* combatant that does not exist
NextReject ==
    \E r \in Reqs :
        \/ HandleAction(r, RejectCalls)
        \/ LogAction(r)
        \/ SaveState(r)
        \/ DbFails(r)
        \/ HandleState(r)

SpecReject == InitApi /\ [][NextReject]_vars

\* Concurrent requests on the session while websocket clients connect and
\* disconnect
NextWs ==
    \/ \E w \in Sockets : WsConnect(w) \/ WsDisconnect(w)
    \/ \E r \in WsReqs :
        \/ HandleAction(r, WsCalls)
        \/ LogAction(r)
        \/ SaveState(r)
        \/ SendDone(r)
        \/ DbFails(r)
        \/ HandleState(r)

SpecWs == InitApi /\ [][NextWs]_vars

\* After create_session, with the websocket clients of SubSockets
InitSub ==
    /\ gs = NewGameState
    /\ in_cache = TRUE
    /\ active = <<>>
    /\ inbox = [w \in SubSockets |-> <<>>]
    /\ pc = [r \in SubReqs |-> "new"]
    /\ loc = [r \in SubReqs |-> NoLocals]
    /\ applied = <<>>
    /\ action_log = <<>>
    /\ state_rows = <<StateRow(StateData(NewGameState))>>
    /\ NoPanels

\* An action on the session while clients of this and of another session
\* connect to /ws, send pings and subscribes, go away and disconnect
NextSub ==
    \/ \E w \in SubSockets : WsConnect(w) \/ WsDisconnect(w) \/ WsReceive(w)
    \/ \E r \in SubReqs :
        \/ HandleAction(r, RaceCalls)
        \/ LogAction(r)
        \/ SaveState(r)
        \/ SendDone(r)
        \/ SendFails(r)
        \/ DbFails(r)

SpecSub == InitSub /\ [][NextSub]_vars

\* The action requests served, one after the other, before the requests of
\* ReadReqs arrive: the Terrorist player has shot the Counter-Terrorist
\* player four times and the bot three times
PlayedCalls ==
    [i \in 1..7 |-> Call("Terrorists", "player",
                         IF i <= 4 THEN "shoot player" ELSE "shoot bot")]

\* The draws of those requests: every shot hits
PlayedDraw == [u |-> 50, k |-> 0]

RECURSIVE PlayedState(_)
\* What the i-th of those requests returns and the object it leaves:
\* GameState.apply_action, then the is_round_over() calls of the broadcast
\* message and of the response
PlayedAction(i) ==
    LET c == PlayedCalls[i]
    IN  apply_action(PlayedState(i - 1), c.team, c.entity, c.action, PlayedDraw)

PlayedState(i) ==
    IF i = 0 THEN NewGameState
    ELSE is_round_over(is_round_over(PlayedAction(i).g).g).g

ReadReqs == (Len(PlayedCalls) + 1)..(Len(PlayedCalls) + MaxReadReq)

\* The session after the requests of PlayedCalls: the object in the cache
\* and the rows the handlers have inserted
InitRead ==
    /\ gs = PlayedState(Len(PlayedCalls))
    /\ in_cache = TRUE
    /\ active = <<>>
    /\ inbox = [w \in Sockets |-> <<>>]
    /\ pc = [r \in ReadReqs |-> "new"]
    /\ loc = [r \in ReadReqs |-> NoLocals]
    /\ applied = [i \in 1..Len(PlayedCalls) |->
                    [request |-> i, base |-> PlayedState(i - 1),
                     made |-> PlayedAction(i).g]]
    /\ action_log = [i \in 1..Len(PlayedCalls) |->
                        [request |-> i,
                         round_number |-> PlayedAction(i).g.round,
                         team |-> PlayedCalls[i].team,
                         player_name |-> PlayedCalls[i].entity,
                         action |-> PlayedCalls[i].action,
                         result |-> PlayedAction(i).result]]
    /\ state_rows = <<StateRow(StateData(NewGameState))>>
                        \o [i \in 1..Len(PlayedCalls) |->
                                StateRow(StateData(PlayedAction(i).g))]
    /\ NoPanels

\* Concurrent shots and state reads on that session
NextRead ==
    \E r \in ReadReqs :
        \/ HandleAction(r, ReadCalls)
        \/ LogAction(r)
        \/ SaveState(r)
        \/ DbFails(r)
        \/ HandleState(r)

SpecRead == InitRead /\ [][NextRead]_vars

\* The requests of a session that is played through a whole round and then
\* asked for more
MaxLifeReq == 3

LifeReqs == 1..MaxLifeReq

\* The actions of test_full_game_flow that decide the round
LifeCalls ==
    {Call("Terrorists", "player", "plant bomb"),
     Call("Counter-Terrorists", "player", "defuse bomb")}

InitLife ==
    /\ gs = NewGameState
    /\ in_cache = TRUE
    /\ active = <<>>
    /\ inbox = [w \in Sockets |-> <<>>]
    /\ pc = [r \in LifeReqs |-> "new"]
    /\ loc = [r \in LifeReqs |-> NoLocals]
    /\ applied = <<>>
    /\ action_log = <<>>
    /\ state_rows = <<StateRow(StateData(NewGameState))>>
    /\ NoPanels

\* A session driven only through its state and action endpoints
NextLife ==
    \E r \in LifeReqs :
        \/ HandleAction(r, LifeCalls)
        \/ LogAction(r)
        \/ SaveState(r)
        \/ HandleState(r)

SpecLife == InitLife /\ [][NextLife]_vars

\* apply_action of the API with the session not cached: 404
ActionNotFound(r) ==
    /\ pc[r] = "new"
    /\ ~in_cache
    /\ pc' = [pc EXCEPT ![r] = "not_found"]
    /\ loc' = [loc EXCEPT ![r].kind = "action"]
    /\ UNCHANGED <<gs, in_cache, active, inbox, applied, action_log, state_rows,
                 next_round_votes, chat_logs, ct_chat>>

\* get_game_state with the session not cached, up to await conn.fetchrow
HandleStateMiss(r) ==
    /\ pc[r] = "new"
    /\ ~in_cache
    /\ pc' = [pc EXCEPT ![r] = "fetch"]
    /\ loc' = [loc EXCEPT ![r].kind = "state"]
    /\ UNCHANGED <<gs, in_cache, active, inbox, applied, action_log, state_rows,
                 next_round_votes, chat_logs, ct_chat>>

\* fetchrow returns the latest snapshot row: a GameState is put into the
\* cache and the response is built from it
FetchDone(r) ==
    /\ pc[r] = "fetch"
    /\ state_rows # <<>>
    /\ in_cache' = TRUE
    /\ Respond(r, Reconstructed(state_rows))
    /\ UNCHANGED <<active, inbox, loc, applied, action_log, state_rows,
                 next_round_votes, chat_logs, ct_chat>>

\* The server process stops and starts again: the cache and the connections
\* are gone, the handlers in flight never finish, the tables stay
Restart ==
    /\ in_cache' = FALSE
    /\ gs' = NewGameState
    /\ active' = <<>>
    /\ pc' = [r \in DOMAIN pc |-> IF pc[r] \in {"log", "save", "send", "fetch"}
                                  THEN "aborted" ELSE pc[r]]
    /\ UNCHANGED <<inbox, loc, applied, action_log, state_rows,
                 next_round_votes, chat_logs, ct_chat>>

NextRecover ==
    \/ NextApi
    \/ Restart
    \/ \E r \in Reqs : ActionNotFound(r) \/ HandleStateMiss(r) \/ FetchDone(r)

SpecRecover == InitApi /\ [][NextRecover]_vars

\* After create_session, with the requests that are sent around a restart
InitRace ==
    /\ gs = NewGameState
    /\ in_cache = TRUE
    /\ active = <<>>
    /\ inbox = [w \in Sockets |-> <<>>]
    /\ pc = [r \in RaceReqs |-> "new"]
    /\ loc = [r \in RaceReqs |-> NoLocals]
    /\ applied = <<>>
    /\ action_log = <<>>
    /\ state_rows = <<StateRow(StateData(NewGameState))>>
    /\ NoPanels

\* State reads and action requests on the session before and after a restart
NextRace ==
    \/ Restart
    \/ \E r \in RaceReqs :
        \/ HandleAction(r, RaceCalls)
        \/ LogAction(r)
        \/ SaveState(r)
        \/ DbFails(r)
        \/ HandleState(r)
        \/ ActionNotFound(r)
        \/ HandleStateMiss(r)
        \/ FetchDone(r)

SpecRace == InitRace /\ [][NextRace]_vars

(***************************************************************************)
(* Properties of the engine.                                               *)
(***************************************************************************)
\* h is g up to the recent-results list
SameButResults(g, h) ==
    [h EXCEPT !.last_action_results = g.last_action_results] = g

\* h's recent-results list is g's with result appended
ResultAppended(g, h, result) ==
    h.last_action_results = Recent(Append(g.last_action_results, result))

LastResult == Last(gs.last_action_results)

IsInvalidResult(result) == StartsWith(result, "Invalid action:")

IsDeadResult(result) == \E m \in MemberSet : result = m \o " is dead and cannot act."

\* C1: after any sequence of apply_action and reset_round calls on a fresh
\* GameState, the health of every combatant of both teams is an integer in
\* [0, 100].
C1_HealthInRange ==
    \A t \in TeamSet, m \in MemberSet : gs.player_health[t][m] \in 0..FullHealth

\* A combatant at 10 health has been hit (10 - 30 clamped to 0) in a round
\* that follows a reset.
C1_Witness ==
    /\ gs.round > 1
    /\ gs.player_health["Counter-Terrorists"]["bot"] = 0
    /\ gs.player_health["Terrorists"]["player"] = 10
    /\ gs.last_action_results = <<"player killed bot! (0 HP)">>

\* C2: once the winner of a round is set, every later call other than
\* reset_round (which moves to the next round) leaves it the same.
C2_WinnerNeverChanges ==
    [][(gs.winner # "None" /\ gs'.round = gs.round) => gs'.winner = gs.winner]_vars

\* The step from gs to gs' is a call of apply_action that returned result
AppliedWith(c, result) ==
    \E rnd \in Draws :
        LET r == apply_action(gs, c.team, c.entity, c.action, rnd)
        IN  gs' = r.g /\ result = r.result

\* The step from gs to gs' recorded an 'Invalid action: ...' result
RecordsInvalid ==
    /\ gs'.round = gs.round
    /\ gs'.last_action_results # <<>>
    /\ IsInvalidResult(Last(gs'.last_action_results))

ActionReqs == {r \in Reqs : loc[r].kind = "action" /\ pc[r] \notin {"new", "not_found"}}

\* The place of request r in the order of application
AppliedAt(r) == CHOOSE i \in 1..Len(applied) : applied[i].request = r

IsPlant(r) ==
    /\ loc[r].call.team = "Terrorists"
    /\ loc[r].call.action = "plant bomb"

\* C4 as stated: no subscriber is ever sent a message for an action whose
\* result is Invalid.
C4_NoBroadcastForInvalid ==
    \A w \in Sockets : \A i \in 1..Len(inbox[w]) :
        ~IsInvalidResult(inbox[w][i].result)

\* C6: when two Terrorist combatants, both alive, submit 'plant bomb' to the
\* session one right after the other while no bomb is planted, the first
\* applied gets the 'planted bomb' result and the second the 'already
\* planted' result, however their handlers interleave afterwards.
C6_ExactlyOnePlants ==
    \A i \in 1..(Len(applied) - 1) :
        LET a == applied[i].request
            b == applied[i + 1].request
        IN  (/\ IsPlant(a) /\ IsPlant(b)
             /\ loc[a].call.entity # loc[b].call.entity
             /\ ~gs.player_health["Terrorists"][loc[a].call.entity] <= 0
             /\ ~gs.player_health["Terrorists"][loc[b].call.entity] <= 0
             /\ ~applied[i].base.bomb_planted)
            => /\ Contains(loc[a].result, " planted bomb at ")
               /\ loc[b].result = loc[b].call.entity \o ": Bomb is already planted!"

\* Both plant requests are suspended at the INSERT of their log row, the
\* one applied second being the lower-numbered one.
C6_Witness ==
    /\ Len(applied) = 2
    /\ applied[1].request = 2 /\ applied[2].request = 1
    /\ IsPlant(1) /\ IsPlant(2)
    /\ loc[1].call.entity # loc[2].call.entity
    /\ pc[1] = "log" /\ pc[2] = "log"
    /\ loc[1].result = loc[1].call.entity \o ": Bomb is already planted!"

\* C7: the actions of concurrent requests are applied one at a time in one
\* order: every request is applied once, and each action is applied to the
\* state the previous application left complete (with at most the winner
\* filled in by is_round_over in between).
C7_TotalOrder ==
    /\ \A i, j \in 1..Len(applied) : applied[i].request = applied[j].request => i = j
    /\ \A r \in ActionReqs : \E i \in 1..Len(applied) : applied[i].request = r
    /\ \A i \in 1..Len(applied) :
        LET prev == IF i = 1 THEN NewGameState ELSE applied[i - 1].made
        IN  applied[i].base \in {prev, is_round_over(prev).g}
    /\ applied # <<>> => gs \in {Last(applied).made, is_round_over(Last(applied).made).g}

\* Two requests are in flight at once, and the second was applied to the
\* state the first left: the bomb planted by one is defused by the other.
C7_Witness ==
    /\ Len(applied) >= 2
    /\ pc[applied[1].request] \in {"log", "save", "send"}
    /\ pc[applied[2].request] \in {"log", "save", "send"}
    /\ applied[1].made.bomb_planted
    /\ applied[2].made.winner = "Counter-Terrorists"

\* C8: when the handler of an action request broadcasts or has returned its
\* response, the row of the action is in the action log.
C8_LoggedBeforeResponse ==
    \A r \in Reqs :
        (loc[r].kind = "action" /\ pc[r] \in {"send", "done"}) =>
            \E i \in 1..Len(action_log) :
                /\ action_log[i].request = r
                /\ action_log[i].result = loc[r].result

\* An action request has been answered after its message reached a
\* subscriber.
C8_Witness ==
    \E r \in Reqs :
        /\ loc[r].kind = "action" /\ pc[r] = "done"
        /\ \E w \in Sockets : \E i \in 1..Len(inbox[w]) : inbox[w][i] = loc[r].msg[1]
        /\ \E i \in 1..Len(action_log) : action_log[i].request = r

\* C9 as stated: the rows of the action log are in the order in which the
\* actions were applied.
C9_LogOrderIsApplyOrder ==
    \A i, j \in 1..Len(action_log) :
        i < j => AppliedAt(action_log[i].request) < AppliedAt(action_log[j].request)

\* C10 as stated: the state put into the cache when a session that is not
\* cached is read equals the last persisted state in round, health,
\* objective, winner and scoreboard.
C10_RecoveredIsLastPersisted ==
    [][\A r \in Reqs :
        (pc[r] = "fetch" /\ pc'[r] = "done") =>
            LET d == LatestStateData(state_rows)
            IN  /\ gs'.round = d.round
                /\ gs'.player_health = d.player_health
                /\ gs'.bomb_planted = d.bomb_planted
                /\ gs'.bomb_site = d.bomb_site
                /\ gs'.winner = d.winner
                /\ gs'.round_scores = d.round_scores]_vars

\* The API server has returned the response of action request r
Acknowledged(r) == loc[r].kind = "action" /\ pc[r] = "done"

\* C11 as stated: while the session stays cached, the cached state is never
\* replaced by one that lacks the effect of an acknowledged action: a bomb
\* whose planting was acknowledged stays planted.
C11_AcknowledgedNeverLost ==
    [][\A r \in RaceReqs :
        (/\ in_cache /\ in_cache'
         /\ Acknowledged(r)
         /\ Contains(loc[r].result, " planted bomb at ")
         /\ gs.bomb_planted)
        => gs'.bomb_planted]_vars

\* C12 as stated: once the log or snapshot write of an action request has
\* failed, no further action is applied to the session's match state, and at
\* the failure the match state goes back to what it was before the action
\* whose write failed.
C12_WriteFailureHalts ==
    [][/\ (\E r \in Reqs : pc[r] = "error") => applied' = applied
       /\ \A r \in Reqs :
            (pc[r] # "error" /\ pc'[r] = "error") =>
                gs' = applied[AppliedAt(r)].base]_vars

Eliminated(g, team) == \A m \in MemberSet : g.player_health[team][m] <= 0

\* C13: right after the action that brings the last alive member of a team
\* to 0 health, is_round_over returns True and leaves the opposing team as
\* the winner.
C13_EliminationEndsRound ==
    [][\A team \in TeamSet :
        (~Eliminated(gs, team) /\ Eliminated(gs', team)) =>
            LET over == is_round_over(gs')
            IN  /\ over.ret
                /\ over.g.winner \in TeamSet \ {team}]_vars

\* The last Counter-Terrorist has just been killed, after the bomb was
\* defused in the same round.
C13_Witness ==
    /\ Eliminated(gs, "Counter-Terrorists")
    /\ gs.winner = "Counter-Terrorists"
    /\ gs.last_action_results # <<>>
    /\ Contains(LastResult, " killed ")

\* C14: is_game_over returns True exactly when some team's score is more
\* than half of max_rounds or the round number is more than max_rounds,
\* whatever the round, the scores and max_rounds (odd or even) are.
C14_GameOverIffMajorityOrRoundsUp ==
    is_game_over(gs) <=>
        \/ \E t \in TeamSet : 2 * gs.round_scores[t] > gs.max_rounds
        \/ gs.round > gs.max_rounds

\* An even max_rounds with a score of exactly half of it, reached by the
\* reset of a won round: the game is not over.
C14_Witness ==
    /\ gs.max_rounds = 4
    /\ gs.round = 3
    /\ gs.round_scores["Terrorists"] = 2
    /\ gs.round_scores["Counter-Terrorists"] = 0
    /\ gs.winner = "None"
    /\ ~is_game_over(gs)

\* The rounds team t has won: those on the scoreboard and the current one
RoundWins(g, t) == g.round_scores[t] + (IF g.winner = t THEN 1 ELSE 0)

\* C15 as stated: with max_rounds = 3, once a team has won 2 rounds
\* is_game_over returns True, also while the round number is below
\* max_rounds.
C15_MatchOverAfterTwoWins ==
    \A t \in TeamSet :
        (gs.max_rounds = 3 /\ gs.round < gs.max_rounds /\ RoundWins(gs, t) >= 2)
            => is_game_over(gs)

TotalScore(g) == g.round_scores["Terrorists"] + g.round_scores["Counter-Terrorists"]

\* C16 as stated: the game loop resets a round only when the round has a
\* winner.  reset_round awards the round to the recorded winner, so a reset
\* of a round that has a winner is one that adds a point to the scoreboard.
C16_ResetOnlyWhenResolved ==
    [][gs'.round # gs.round => TotalScore(gs') = TotalScore(gs) + 1]_vars

\* C17: reset_round adds exactly 1 to the round number, puts every
\* combatant's health at 100, clears the objective (not planted, no site)
\* and the winner, adds exactly 1 to the score of the winner the round had
\* and leaves the score of the other team (of both, if there was no winner)
\* as it was.
C17_ResetRound ==
    [][gs'.round # gs.round =>
        /\ gs'.round = gs.round + 1
        /\ \A t \in TeamSet : \A m \in MemberSet : gs'.player_health[t][m] = 100
        /\ ~gs'.bomb_planted
        /\ gs'.bomb_site = "None"
        /\ gs'.winner = "None"
        /\ \A t \in TeamSet :
             gs'.round_scores[t] =
                gs.round_scores[t] + (IF gs.winner = t THEN 1 ELSE 0)]_vars

\* Round 2 has just started after a round that the Counter-Terrorists won.
C17_Witness ==
    /\ gs.round = 2
    /\ gs.round_scores["Counter-Terrorists"] = 1
    /\ gs.round_scores["Terrorists"] = 0
    /\ gs.winner = "None"
    /\ gs.last_action_results = <<>>
    /\ \A t \in TeamSet : \A m \in MemberSet : gs.player_health[t][m] = 100

\* Call c is a plant text of an alive Terrorist while no bomb is planted
ValidPlant(g, c) ==
    /\ Parsed[c.action].plant
    /\ c.team = "Terrorists"
    /\ g.player_health[c.team][c.entity] > 0
    /\ ~g.bomb_planted

\* C18: bomb_planted goes from False to True only by a plant text that an
\* alive Terrorist submits while no bomb is planted; a plant text submitted
\* by a Counter-Terrorist, by a dead combatant or while the bomb is planted
\* changes neither bomb_planted nor bomb_site.
C18_PlantedOnlyByValidPlant ==
    [][/\ (~gs.bomb_planted /\ gs'.bomb_planted) =>
            \E c \in ObjectiveCalls, rnd \in Draws :
                /\ ValidPlant(gs, c)
                /\ gs' = apply_action(gs, c.team, c.entity, c.action, rnd).g
       /\ \A c \in ObjectiveCalls :
            (Parsed[c.action].plant /\ ~ValidPlant(gs, c)) =>
                \A rnd \in Draws :
                    gs' = apply_action(gs, c.team, c.entity, c.action, rnd).g =>
                        /\ gs'.bomb_planted = gs.bomb_planted
                        /\ gs'.bomb_site = gs.bomb_site]_vars

\* The bomb is planted at A-site and a Terrorist has just been told that it
\* is already planted.
C18_Witness ==
    /\ gs.bomb_planted
    /\ gs.bomb_site = "A-site"
    /\ gs.last_action_results # <<>>
    /\ LastResult = "player: Bomb is already planted!"

\* h is g after a successful defuse by entity
DefuseSucceeded(g, h, entity) ==
    h = [g EXCEPT
            !.bomb_planted = FALSE,
            !.winner = "Counter-Terrorists",
            !.last_action_results =
                Recent(Append(@, entity \o " successfully defused the bomb! CT wins!"))]

\* C19: a defuse text takes effect only for an alive Counter-Terrorist
\* while the bomb is planted, and then it clears bomb_planted and makes the
\* Counter-Terrorists the winner; a failed defuse, a defuse with no bomb
\* planted and a defuse text of a Terrorist change nothing but the recorded
\* result text.
C19_DefuseEffect ==
    [][\A c \in ObjectiveCalls :
        Parsed[c.action].defuse =>
            \A rnd \in Draws :
                LET r == apply_action(gs, c.team, c.entity, c.action, rnd)
                IN  gs' = r.g =>
                        \/ /\ c.team = "Counter-Terrorists"
                           /\ gs.player_health[c.team][c.entity] > 0
                           /\ gs.bomb_planted
                           /\ DefuseSucceeded(gs, gs', c.entity)
                        \/ /\ SameButResults(gs, gs')
                           /\ ResultAppended(gs, gs', r.result)
                           /\ ~Contains(r.result, "successfully defused")]_vars

\* The bomb has just been defused.
C19_Witness ==
    /\ ~gs.bomb_planted
    /\ gs.bomb_site # "None"
    /\ gs.winner = "Counter-Terrorists"
    /\ gs.last_action_results # <<>>
    /\ LastResult = "player successfully defused the bomb! CT wins!"

\* h is g after a shot of entity at the team named opponents with the
\* returned result: either one alive target has lost 30 health, stopping at
\* 0, and the result is Kill exactly when it is left with 0 and Hit
\* otherwise, or no health has changed and the result is neither
ShotOutcome(g, h, entity, opponents, result) ==
    \/ \E target \in MemberSet :
        LET hp == g.player_health[opponents][target]
            left == IF hp - 30 < 0 THEN 0 ELSE hp - 30
        IN  /\ hp > 0
            /\ h.player_health = [g.player_health EXCEPT ![opponents][target] = left]
            /\ result = IF left = 0
                        THEN entity \o " killed " \o target \o "! (0 HP)"
                        ELSE entity \o " hit " \o target \o " for 30 damage! ("
                                    \o ToString(left) \o " HP left)"
    \/ /\ h.player_health = g.player_health
       /\ ~Contains(result, " killed ")
       /\ ~Contains(result, " hit ")

\* C20: a shot that hits an alive target with health h leaves it with
\* max(0, h - 30) and reports Kill exactly when that is 0, otherwise Hit; a
\* miss changes no health; nobody but the target, and nobody of the
\* shooter's team, has their health changed.
C20_ShotOutcome ==
    [][\A c \in ObjectiveCalls :
        Parsed[c.action].shoot =>
            \A rnd \in Draws :
                LET r == apply_action(gs, c.team, c.entity, c.action, rnd)
                IN  gs' = r.g =>
                        ShotOutcome(gs, gs', c.entity,
                                    IF c.team = "Terrorists"
                                    THEN "Counter-Terrorists" ELSE "Terrorists",
                                    r.result)]_vars

\* The Counter-Terrorist bot has just shot the Terrorist player, who had 10
\* health left, dead; no Counter-Terrorist has been hit.
C20_Witness ==
    /\ gs.player_health["Terrorists"]["player"] = 0
    /\ gs.player_health["Counter-Terrorists"]["player"] = 100
    /\ gs.last_action_results # <<>>
    /\ LastResult = "bot killed player! (0 HP)"

\* The round of g is resolved: it has a winner or a team is eliminated
Resolved(g) == g.winner # "None" \/ \E t \in TeamSet : Eliminated(g, t)

\* C30: once a round has a winner or a team is entirely eliminated, no step
\* that stays in that round changes a combatant's health or the objective
\* state (bomb_planted, bomb_site).
C30_ResolvedRoundIsTerminal ==
    [][(Resolved(gs) /\ gs'.round = gs.round) =>
            /\ gs'.player_health = gs.player_health
            /\ gs'.bomb_planted = gs.bomb_planted
            /\ gs'.bomb_site = gs.bomb_site]_vars

\* result reports a shot of entity at target: a miss, a hit or a kill
ShotAt(result, entity, target) ==
    \/ result = entity \o " missed " \o target \o "."
    \/ result = entity \o " killed " \o target \o "! (0 HP)"
    \/ StartsWith(result, entity \o " hit " \o target \o " for ")

\* C27: an Attack of a living combatant is resolved against the named
\* target when that target is alive, and otherwise, as long as some
\* opponent is alive, against an opponent that is alive; the no-targets
\* result, with no health changed, is returned only when no opponent is
\* alive.
C27_AttackFindsAliveTarget ==
    [][\A c \in Calls :
        (Parsed[c.action].shoot /\ ~Parsed[c.action].move /\ ~IsDead(gs, c.team, c.entity)) =>
            \A rnd \in Draws :
                LET r == apply_action(gs, c.team, c.entity, c.action, rnd)
                    hps == gs.player_health[Opponent(c.team)]
                    named == Parsed[c.action].target
                    alive == {m \in MemberSet : hps[m] > 0}
                IN  gs' = r.g =>
                        IF named # 0 /\ MEMBERS[named] \in alive
                        THEN ShotAt(r.result, c.entity, MEMBERS[named])
                        ELSE IF alive # {}
                        THEN \E t \in alive : ShotAt(r.result, c.entity, t)
                        ELSE /\ r.result = c.entity \o " has no targets to shoot!"
                             /\ gs'.player_health = gs.player_health]_vars

\* The site of the declared list A-site, B-site, Mid that comes first in
\* that list among those the normalized text a mentions, or "None"
DeclaredSite(a) ==
    IF Contains(a, "a-site") THEN "A-site"
    ELSE IF Contains(a, "b-site") THEN "B-site"
    ELSE IF Contains(a, "mid") THEN "Mid"
    ELSE "None"

\* C28: a Move goes to, and a Plant plants at, the site that comes first in
\* the declared list among the sites the text mentions, whatever their order
\* in the text; with no site in the text a Move goes to 'unknown' and a
\* Plant uses a member of the site list.
C28_FirstDeclaredSiteWins ==
    [][\A c \in ParseCalls, rnd \in Draws :
        LET r == apply_action(gs, c.team, c.entity, c.action, rnd)
            site == DeclaredSite(Strip(Lower(c.action)))
        IN  gs' = r.g =>
                /\ StartsWith(r.result, c.entity \o " moved to ") =>
                        LET position == IF site = "None" THEN "unknown" ELSE site
                        IN  /\ gs'.current_positions[c.team][c.entity] = position
                            /\ r.result = c.entity \o " moved to " \o position \o "."
                /\ StartsWith(r.result, c.entity \o " planted bomb at ") =>
                        /\ gs'.bomb_planted
                        /\ r.result = c.entity \o " planted bomb at " \o gs'.bomb_site \o "!"
                        /\ IF site = "None"
                           THEN \E i \in 1..Len(POSITIONS) : gs'.bomb_site = POSITIONS[i]
                           ELSE gs'.bomb_site = site]_vars

\* The Terrorist player, told 'move to mid then b-site', has just moved to
\* B-site, and the bomb, planted with 'plant bomb at mid or a-site' or with
\* no site named, is at A-site.
C28_Witness ==
    /\ gs.current_positions["Terrorists"]["player"] = "B-site"
    /\ gs.bomb_planted
    /\ gs.bomb_site = "A-site"
    /\ gs.last_action_results # <<>>
    /\ LastResult = "player moved to B-site."

\* C29: a text of a living Terrorist that contains the literal phrase
\* 'plant bomb' and the literal phrase of no other action is parsed as a
\* Plant, also when it contains an alias of another action: the bomb is
\* planted, or reported as already planted.
C29_LiteralPhraseBeforeAliases ==
    [][\A c \in ParseCalls, rnd \in Draws :
        LET r == apply_action(gs, c.team, c.entity, c.action, rnd)
            a == Strip(Lower(c.action))
        IN  (/\ Contains(a, "plant bomb")
             /\ ~Contains(a, "move to") /\ ~Contains(a, "shoot")
             /\ ~Contains(a, "defuse bomb")
             /\ c.team = "Terrorists"
             /\ ~IsDead(gs, c.team, c.entity)
             /\ gs' = r.g) =>
                \/ StartsWith(r.result, c.entity \o " planted bomb at ")
                \/ r.result = c.entity \o ": Bomb is already planted!"]_vars

\* The call names a team or a combatant that does not exist
UnknownActor(c) == c.team \notin TeamSet \/ c.entity \notin MemberSet

\* C26: an action request that names a team or a combatant that does not
\* exist ends with an error, and its handler leaves the match state and the
\* database tables exactly as they were.
C26_UnknownActorRejected ==
    [][\A r \in DOMAIN pc :
        (/\ pc[r] = "new" /\ pc'[r] # "new"
         /\ loc'[r].kind = "action"
         /\ UnknownActor(loc'[r].call)) =>
            /\ pc'[r] = "error"
            /\ gs' = gs
            /\ action_log' = action_log
            /\ state_rows' = state_rows]_vars

\* A request naming an unknown team or combatant has ended with an error
\* after another request has planted the bomb.
C26_Witness ==
    /\ gs.bomb_planted
    /\ \E r \in DOMAIN pc : pc[r] = "error" /\ UnknownActor(loc[r].call)
    /\ \E r \in DOMAIN pc : pc[r] = "done" /\ ~UnknownActor(loc[r].call)

\* C21: a client receives action messages only of the session it connected
\* to.
C21_OnlyOwnSession ==
    \A w \in DOMAIN inbox : \A i \in 1..Len(inbox[w]) :
        inbox[w][i].type = "action_result" =>
            inbox[w][i].session_id = ws_session_id(w)

\* C22: when a broadcast ends, its message has been delivered to every
\* connection that was in the subscriber set from the start of the
\* broadcast to its end, the connection of the last send, which may have
\* failed, aside.
C22_BroadcastReachesAllWhoStay ==
    [][\A r \in DOMAIN pc :
        (pc[r] = "send" /\ pc'[r] = "done") =>
            \A w \in loc[r].stayed \ {loc[r].target} :
                \E i \in 1..Len(inbox'[w]) : inbox'[w][i] = loc[r].msg[1]]_vars

\* C23: every action message a client receives comes after a snapshot of
\* the match state sent to that client.
C23_SnapshotFirst ==
    \A w \in DOMAIN inbox : \A i \in 1..Len(inbox[w]) :
        inbox[w][i].type = "action_result" =>
            \E j \in 1..(i - 1) : inbox[w][j].type = "snapshot"

\* C24: when the send of a broadcast to a connection of the subscriber set
\* delivers nothing, the connection is no longer in the subscriber set when
\* the broadcast goes on.
C24_FailedSubscriberDropped ==
    [][\A r \in DOMAIN pc :
        (/\ pc[r] = "send"
         /\ pc'[r] # "send" \/ loc'[r].idx # loc[r].idx
         /\ \E i \in 1..Len(active) : active[i] = loc[r].target
         /\ inbox'[loc[r].target] = inbox[loc[r].target]) =>
            \A i \in 1..Len(active') : active'[i] # loc[r].target]_vars

\* C25: a state read leaves the match state as it was: no field of the
\* GameState, the round winner among them, is changed by the handler of the
\* state endpoint.
C25_ReadChangesNothing ==
    [][\A r \in DOMAIN pc :
        (pc[r] = "new" /\ pc'[r] = "done" /\ loc'[r].kind = "state") =>
            gs' = gs]_vars

\* C38: the state an action request reports is the state its own action
\* produced: the snapshot built for the request shows the match as the
\* request's action left it (the round-over check apart), with no effect of
\* an action applied after it.
C38_ReportedStateIsOwn ==
    \A r \in ActionReqs :
        loc[r].snap # <<>> =>
            LET made == applied[AppliedAt(r)].made
            IN  loc[r].snap[1] \in {StateData(made), StateData(is_round_over(made).g)}

\* C37: a Terrorist input that apply_action reports as Invalid changes
\* nothing of the shared match state: after the input has been handled,
\* health, positions, objective, winner, round and scores are what they
\* were before it.
C37_InvalidInputIsSilent ==
    [][\A action \in PanelTexts, rnd \in Draws, ct_rnd \in Draws :
        LET acted == apply_action(gs, "Terrorists", "player", action, rnd)
        IN  (/\ IsInvalidResult(acted.result)
             /\ gs' = CtResponse(RoundEnd(acted.g), ct_rnd)) =>
                SameButResults(gs, gs')]_vars

\* C33: with max_rounds = 3 the game loop plays no round whose number is
\* above max_rounds.
C33_NoRoundAboveMaxRounds ==
    gs.max_rounds = 3 => gs.round <= gs.max_rounds

\* C31: when the round-over check finds the round over, the phase of the
\* round becomes the resolved one ('resolve' of the phases 'chat', 'action',
\* 'resolve').
C31_PhaseResolvedOnRoundOver ==
    [][(is_round_over(gs).ret /\ gs' = is_round_over(gs).g) =>
            gs'.phase = "resolve"]_vars

\* The engine with the round-over check polled for ever: the callers of the
\* engine go on calling it
SpecCountdown == SpecObjective /\ WF_vars(NextObjective)

\* C32: from a state in which the bomb is planted, either the bomb stops
\* being planted or the round is eventually reported as won by the
\* Terrorists.
C32_PlantedBombWinsRound ==
    gs.bomb_planted ~> (~gs.bomb_planted \/ gs.winner = "Terrorists")

\* C34: once a round of a session driven through the API has a winner, the
\* session can move on: a request still to be handled has a step that takes
\* the session to a later round.
C34_SessionCanMoveOn ==
    (gs.winner # "None" /\ \E r \in DOMAIN pc : pc[r] = "new") =>
        ENABLED (NextLife /\ gs'.round > gs.round)

\* C39: at most one team has all its combatants at health <= 0: the two
\* teams are never eliminated at the same time.
C39_AtMostOneTeamEliminated ==
    ~(Eliminated(gs, "Terrorists") /\ Eliminated(gs, "Counter-Terrorists"))

\* A team is eliminated in a round that follows a reset, and the player of
\* the other team has been hit
C39_Witness ==
    /\ gs.round > 1
    /\ \E t \in TeamSet :
        /\ Eliminated(gs, t)
        /\ gs.player_health[Opponent(t)]["player"] < FullHealth

\* C40: with max_rounds fixed, once is_game_over is true it is true after
\* every later apply_action, is_round_over and reset_round, and no step
\* lowers the round number or the score of a team.
C40_MatchOverIsMonotone ==
    [][/\ is_game_over(gs) => is_game_over(gs')
       /\ gs'.max_rounds = gs.max_rounds
       /\ gs'.round >= gs.round
       /\ \A t \in TeamSet : gs'.round_scores[t] >= gs.round_scores[t]]_vars

\* The match is over by the scoreboard alone, a round decided after the
\* match was over has been reset, and an action has been applied since
C40_Witness ==
    /\ is_game_over(gs)
    /\ gs.round <= gs.max_rounds
    /\ TotalScore(gs) >= 3
    /\ gs.last_action_results # <<>>

\* C35: 'cheat: next' resets the round only when strictly more than half of
\* the Terrorist panels have a pending vote, the vote just cast counted.
C35_ResetNeedsMajority ==
    [][gs' = reset_round(gs) =>
        2 * (Cardinality({p \in Panels : next_round_votes[p] > 0}) + 1)
            > Len(next_round_votes)]_vars

\* C36: after every handled input every chat list, the Counter-Terrorist
\* panel's included, holds at most 12 messages.
C36_ChatListsCapped ==
    /\ \A p \in DOMAIN chat_logs : chat_logs[p] <= ChatLimit
    /\ ct_chat <= ChatLimit

====
